---- MODULE Spec2Model ----
(***************************************************************************)
(* Model of cairosvgmg/path.py: the SVG path-data interpreter path() and   *)
(* the marker placement pass draw_markers().                               *)
(*                                                                         *)
(* Numbers.  Coordinates are integers.  Angles are integers counted in     *)
(* units of pi/8, so pi is 8 and the directions the model draws are the    *)
(* multiples of pi/4.  Floats are modelled as exact numbers.               *)
(*                                                                         *)
(* Input.  The path-data string is a stream of tokens (command letters     *)
(* and numbers) as it is after the letter isolation of lines 130-134.  The *)
(* variable string holds the part of the remaining input the interpreter   *)
(* is about to read; the rest of the input is revealed group by group by   *)
(* Feed, and EndInput says that nothing follows.                           *)
(***************************************************************************)
EXTENDS Integers, Sequences, FiniteSets, TLC

VARIABLES
    pc,               \* "init", "loop", "returned", "markers", "done", "raised"
    exc,              \* name of the exception that left path()/draw_markers()
    ctx_point,        \* surface.context current point at entry (None if none)
    ctx_start,        \* start point of the surface's subpath at entry (None if none)
    string,           \* revealed part of the remaining path data (tokens)
    eof,              \* TRUE when no input follows the revealed part
    ncmds,            \* number of token groups revealed so far
    letter,           \* path(): letter
    last_letter,      \* path(): last_letter
    current_point,    \* path(): current_point
    first_path_point, \* path(): first_path_point
    x1, y1, x2, y2, x3, y3,   \* path(): control points carried to S/s/T/t
    vertices,         \* node.vertices
    calls,            \* calls made on surface.context, in order
    event,            \* what the last loop iteration did
    vmark,            \* Len(vertices) before the last loop iteration
    cmark,            \* Len(calls) before the last loop iteration
    seg_from,         \* point the last drawing command started from
    origin,           \* point of the last moveto (None before the first)
    consumed,         \* number of tokens the last loop iteration consumed
    complete,         \* every group revealed so far is a letter with its arguments
    rewritten,        \* "pending" after an arc was rewritten as 'l', "done" after that 'l'
    expect,           \* what an 'l' in place of the rewritten arc leaves
    position,         \* draw_markers(): position
    angle1, angle2,   \* draw_markers(): angle1, angle2
    angle,            \* draw_markers(): angle
    angle0,           \* angle as lines 37-45 computed it in the last iteration
    mpoint,           \* draw_markers(): point
    angles,           \* draw_markers(): angles
    marker_cfg,       \* the marker attributes of node and the marker definition
    placed,           \* position the last marker iteration used (line 48)
    prev_point,       \* point of the marker iteration before the last
    prev_angles       \* angles of the marker iteration before the last

ctrl == <<x1, y1, x2, y2, x3, y3>>
interp == <<letter, last_letter, current_point, first_path_point>>
input == <<string, eof, ncmds>>
ghost == <<event, vmark, cmark, seg_from, origin, consumed, complete, rewritten, expect>>
mvars == <<position, angle1, angle2, angle, angle0, mpoint, angles, marker_cfg, placed, prev_point, prev_angles>>
vars == <<pc, exc, ctx_point, ctx_start, input, interp, ctrl, vertices, calls, ghost, mvars>>

(* ----------------------------- bounds ---------------------------------- *)

\* number of token groups the input may consist of
MaxCmds == 3

\* the same, for the paths of straight lines (SpecL)
MaxLineCmds == 4

(* ----------------------------- values ---------------------------------- *)

\* Python None, for variables that otherwise hold a tuple
None == <<>>

\* math.pi, in units of pi/8
PI == 8

\* helpers.PATH_LETTERS
PATH_LETTERS == <<"a", "c", "h", "l", "m", "q", "s", "t", "v", "z",
                  "A", "C", "H", "L", "M", "Q", "S", "T", "V", "Z">>

Letters == {PATH_LETTERS[i] : i \in 1..Len(PATH_LETTERS)}

\* tokens of the path data
Let(c) == [k |-> "L", c |-> c, n |-> 0]
Num(n) == [k |-> "N", c |-> "", n |-> n]
IsLetter(tok) == tok.k = "L"

\* entries of node.vertices: a Point, a Tangent Pair, a Subpath Break (None)
\* (by is the letter of the command that appended a Tangent Pair)
Point(p) == [kind |-> "P", a |-> p[1], b |-> p[2], by |-> ""]
TangentBy(in, out, c) == [kind |-> "T", a |-> in, b |-> out, by |-> c]
Break == [kind |-> "B", a |-> 0, b |-> 0, by |-> ""]

\* a call on surface.context; den is the denominator of the arguments
Call(op, args) == [op |-> op, args |-> args, den |-> 1]
CallDen(op, args, den) == [op |-> op, args |-> args, den |-> den]

(* ----------------------------- helpers --------------------------------- *)

\* helpers.size on a token: a number is its value, '' and anything else 0
size(tok) == IF tok.k = "N" THEN tok.n ELSE 0

\* directions whose angle is a multiple of pi/4
Compass(dx, dy) == dx = 0 \/ dy = 0 \/ dx = dy \/ dx = -dy

\* math.atan2(dy, dx) for the directions of Compass, in units of pi/8
atan2(dy, dx) ==
    IF dy = 0 THEN (IF dx >= 0 THEN 0 ELSE PI)
    ELSE IF dy > 0 THEN (IF dx > 0 THEN 2 ELSE IF dx = 0 THEN 4 ELSE 6)
    ELSE (IF dx > 0 THEN -2 ELSE IF dx = 0 THEN -4 ELSE -6)

\* helpers.point_angle(cx, cy, px, py)
point_angle(cx, cy, px, py) == atan2(py - cy, px - cx)

\* helpers.point(surface, string): tr says that string ends with the space
\* that line 147 appended
point(s, tr) ==
    IF Len(s) >= 2
    THEN [ok |-> TRUE, x |-> size(s[1]), y |-> size(s[2]), rest |-> SubSeq(s, 3, Len(s))]
    ELSE IF Len(s) = 1 /\ tr
    THEN [ok |-> TRUE, x |-> size(s[1]), y |-> 0, rest |-> <<>>]
    ELSE [ok |-> FALSE, x |-> 0, y |-> 0, rest |-> s]

(* ------------------------------ input ---------------------------------- *)

\* last_letter before the first command (Python None)
NoLetter == "None"

Nums(t) == [i \in 1..Len(t) |-> Num(t[i])]
Group(c, t) == <<Let(c)>> \o Nums(t)

\* the token groups Feed may reveal: a command letter with one complete
\* argument group, or a bare number
LineGroups ==
    {Group("M", <<0, 0>>), Group("m", <<1, 0>>),
     Group("L", <<1, 0>>), Group("L", <<1, 1>>), Group("l", <<0, 1>>),
     Group("H", <<1>>), Group("h", <<-1>>), Group("V", <<1>>), Group("v", <<-1>>),
     Group("Z", <<>>), Group("z", <<>>)}

NumberGroups == {<<Num(1)>>}

CurveGroups ==
    {Group("C", <<1, 0, 1, 1, 2, 1>>), Group("c", <<1, 0, 1, 1, 2, 1>>),
     Group("S", <<3, 2, 4, 1>>), Group("s", <<1, 1, 2, 0>>),
     Group("Q", <<1, 1, 2, 0>>), Group("q", <<1, 1, 2, 0>>),
     Group("T", <<2, 1>>), Group("t", <<1, 1>>)}

\* arcs: rx ry rotation large sweep x y
ArcGroups ==
    {Group("A", <<1, 1, 0, 0, 1, 1, 1>>), Group("a", <<1, 1, 0, 1, 0, 1, 1>>),
     Group("a", <<1, 1, 0, 0, 2, 1, 1>>), Group("A", <<0, 1, 0, 0, 1, 1, 1>>)}

Groups == LineGroups \cup NumberGroups \cup CurveGroups \cup ArcGroups

\* the groups of the paths of arcs: the four combinations of the flags,
\* a flag that is not 0 or 1, a radius that is 0, and a bare number
ArcFlagGroups ==
    {Group("a", <<1, 1, 0, 0, 0, 1, 1>>), Group("a", <<1, 1, 0, 0, 1, 1, 1>>),
     Group("a", <<1, 1, 0, 1, 0, 1, 1>>), Group("a", <<1, 1, 0, 1, 1, 1, 1>>),
     Group("A", <<1, 1, 0, 0, 0, 1, 1>>), Group("A", <<1, 1, 0, 1, 1, 1, 1>>),
     Group("a", <<1, 1, 0, 0, 2, 1, 1>>), Group("A", <<0, 1, 0, 0, 1, 1, 1>>)}
    \cup NumberGroups

\* the groups of the paths whose markers are drawn
MarkerGroups ==
    {Group("M", <<0, 0>>), Group("L", <<1, 0>>), Group("L", <<1, 1>>),
     Group("l", <<0, 1>>), Group("H", <<1>>), Group("h", <<-1>>),
     Group("V", <<1>>), Group("v", <<-1>>), Group("Z", <<>>),
     Group("C", <<1, 0, 1, 1, 2, 1>>)}

(* --------------------------- path(): loop head ------------------------- *)

\* line 146: the next token is a command letter
headIsLetter == IsLetter(Head(string))

\* lines 146-154: the letter this iteration executes
Lt ==
    IF headIsLetter THEN Head(string).c
    ELSE IF letter = "M" THEN "L"
    ELSE IF letter = "m" THEN "l"
    ELSE letter

\* line 147: string after the letter has been split off
Rest0 == IF headIsLetter THEN Tail(string) ELSE string

\* line 148: the current point opens the vertex stream of a new subpath
OpensSubpath ==
    headIsLetter /\ last_letter \in {NoLetter, "z", "Z"} /\ Lt \notin {"m", "M"}

\* line 149
V0 == IF OpensSubpath THEN Append(vertices, Point(current_point)) ELSE vertices

\* lines 150-160: first_path_point as the command handlers see it
Fpp ==
    LET f0 == IF OpensSubpath THEN current_point ELSE first_path_point
        f1 == IF last_letter \in {NoLetter, "m", "M", "z", "Z"} THEN None ELSE f0
    IN  IF Lt \notin {"m", "M", "z", "Z"} /\ f1 = None THEN current_point ELSE f1

\* number of argument tokens a command reads (the arc also looks at the
\* token after its arguments, line 192)
ArgCount(c) ==
    IF c \in {"a", "A"} THEN 8
    ELSE IF c \in {"c", "C"} THEN 6
    ELSE IF c \in {"s", "S", "q", "Q"} THEN 4
    ELSE IF c \in {"l", "L", "m", "M", "t", "T"} THEN 2
    ELSE IF c \in {"h", "H", "v", "V"} THEN 1
    ELSE 0

\* the revealed input suffices for the next iteration
Ready ==
    /\ string # <<>>
    /\ eof \/ Len(string) >= (IF headIsLetter THEN 1 ELSE 0) + ArgCount(Lt)

\* line 126: more of node.get('d') is read
Feed ==
    /\ pc = "loop" /\ ~eof /\ ~Ready /\ ncmds < MaxCmds
    /\ \E g \in Groups :
          /\ string' = string \o g
          /\ complete' = (complete /\ IsLetter(Head(g)))
    /\ ncmds' = ncmds + 1
    /\ UNCHANGED <<pc, exc, ctx_point, ctx_start, eof, interp, ctrl, vertices, calls, mvars,
                   event, vmark, cmark, seg_from, origin, consumed, rewritten, expect>>

\* line 126, for the paths of straight lines
FeedL ==
    /\ pc = "loop" /\ ~eof /\ ~Ready /\ ncmds < MaxLineCmds
    /\ \E g \in LineGroups \cup NumberGroups :
          /\ string' = string \o g
          /\ complete' = (complete /\ IsLetter(Head(g)))
    /\ ncmds' = ncmds + 1
    /\ UNCHANGED <<pc, exc, ctx_point, ctx_start, eof, interp, ctrl, vertices, calls, mvars,
                   event, vmark, cmark, seg_from, origin, consumed, rewritten, expect>>

\* line 126, for the paths whose markers are drawn
FeedM ==
    /\ pc = "loop" /\ ~eof /\ ~Ready /\ ncmds < MaxCmds
    /\ \E g \in MarkerGroups :
          /\ string' = string \o g
          /\ complete' = (complete /\ IsLetter(Head(g)))
    /\ ncmds' = ncmds + 1
    /\ UNCHANGED <<pc, exc, ctx_point, ctx_start, eof, interp, ctrl, vertices, calls, mvars,
                   event, vmark, cmark, seg_from, origin, consumed, rewritten, expect>>

\* line 126, for the paths of arcs
FeedA ==
    /\ pc = "loop" /\ ~eof /\ ~Ready /\ ncmds < MaxCmds
    /\ \E g \in ArcFlagGroups :
          /\ string' = string \o g
          /\ complete' = (complete /\ IsLetter(Head(g)))
    /\ ncmds' = ncmds + 1
    /\ UNCHANGED <<pc, exc, ctx_point, ctx_start, eof, interp, ctrl, vertices, calls, mvars,
                   event, vmark, cmark, seg_from, origin, consumed, rewritten, expect>>

\* line 126: the path data ends here
EndInput ==
    /\ pc = "loop" /\ ~eof /\ string # <<>> /\ ~Ready
    /\ eof' = TRUE
    /\ UNCHANGED <<pc, exc, ctx_point, ctx_start, string, ncmds, interp, ctrl, vertices, calls, ghost, mvars>>

(* --------------------------- path(): entry ----------------------------- *)

\* lines 126-142
PathEnter ==
    /\ pc = "init"
    /\ pc' = "loop"
    /\ vertices' = <<>>
    /\ last_letter' = NoLetter
    /\ letter' = PATH_LETTERS[Len(PATH_LETTERS)]
    /\ IF ctx_point # None
       THEN current_point' = ctx_point /\ calls' = calls
       ELSE current_point' = <<0, 0>> /\ calls' = Append(calls, Call("move_to", <<0, 0>>))
    /\ UNCHANGED <<exc, ctx_point, ctx_start, input, first_path_point, ctrl, ghost, mvars>>

(* ----------------------- path(): end of iteration ---------------------- *)

\* lines 451-455, with the assignments of the loop head
Finish(rest, v, cp, newcalls, ev) ==
    /\ pc' = "loop"
    /\ letter' = Lt
    /\ last_letter' = Lt
    /\ string' = rest
    /\ current_point' = cp
    /\ first_path_point' = Fpp
    /\ vertices' = IF Lt \in {"z", "Z"} THEN v ELSE Append(v, Point(cp))
    /\ calls' = calls \o newcalls
    /\ event' = ev
    /\ vmark' = Len(vertices)
    /\ cmark' = Len(calls)
    /\ consumed' = Len(string) - Len(rest)
    /\ rewritten' = IF rewritten = "pending" THEN "done" ELSE "no"
    /\ UNCHANGED <<exc, ctx_point, ctx_start, eof, ncmds, mvars, complete, expect>>

\* an exception leaves path(): what was assigned before it stays assigned
Raise(name, rest, newcalls) ==
    /\ pc' = "raised"
    /\ exc' = name
    /\ letter' = Lt
    /\ string' = rest
    /\ first_path_point' = Fpp
    /\ vertices' = V0
    /\ calls' = calls \o newcalls
    /\ event' = "raise"
    /\ vmark' = Len(vertices)
    /\ cmark' = Len(calls)
    /\ consumed' = Len(string) - Len(rest)
    /\ rewritten' = "no"
    /\ UNCHANGED <<ctx_point, ctx_start, eof, ncmds, last_letter, current_point, ctrl, seg_from, origin,
                   mvars, complete, expect>>

\* line 144: the loop ends when string is empty
PathReturn ==
    /\ pc = "loop" /\ string = <<>>
    /\ pc' = "returned"
    /\ UNCHANGED <<exc, ctx_point, ctx_start, input, interp, ctrl, vertices, calls, ghost, mvars>>

(* ----------------------- path(): straight lines ------------------------ *)

\* lines 281, 291, 427, 437: (string + ' ').split(' ', 1) and size()
FirstArg == IF Rest0 = <<>> THEN 0 ELSE size(Head(Rest0))
AfterFirstArg == IF Rest0 = <<>> THEN <<>> ELSE Tail(Rest0)

\* lines 279-287: letter == 'h'
RelHLine ==
    /\ pc = "loop" /\ Ready /\ Lt = "h"
    /\ LET x == FirstArg
           a == IF x > 0 THEN 0 ELSE PI
       IN  /\ Finish(AfterFirstArg, Append(V0, TangentBy(PI - a, a, Lt)),
                     <<current_point[1] + x, current_point[2]>>,
                     <<Call("rel_line_to", <<x, 0>>)>>, "line")
           /\ seg_from' = current_point
    /\ UNCHANGED <<ctrl, origin>>

\* lines 289-297: letter == 'H'
HLine ==
    /\ pc = "loop" /\ Ready /\ Lt = "H"
    /\ LET x == FirstArg
           a == IF x > current_point[1] THEN 0 ELSE PI
       IN  /\ Finish(AfterFirstArg, Append(V0, TangentBy(PI - a, a, Lt)),
                     <<x, current_point[2]>>,
                     <<Call("line_to", <<x, current_point[2]>>)>>, "line")
           /\ seg_from' = current_point
    /\ UNCHANGED <<ctrl, origin>>

\* math.copysign(pi / 2, d)
copysign_half_pi(d) == IF d >= 0 THEN 4 ELSE -4

\* the Tangent Pair lines 430 and 440 append for the angle a
VTangent(a) == TangentBy(-a, a, Lt)

\* lines 425-433: letter == 'v'
RelVLine ==
    /\ pc = "loop" /\ Ready /\ Lt = "v"
    /\ LET y == FirstArg
           a == copysign_half_pi(y)
       IN  /\ Finish(AfterFirstArg, Append(V0, VTangent(a)),
                     <<current_point[1], current_point[2] + y>>,
                     <<Call("rel_line_to", <<0, y>>)>>, "line")
           /\ seg_from' = current_point
    /\ UNCHANGED <<ctrl, origin>>

\* lines 435-443: letter == 'V'
VLine ==
    /\ pc = "loop" /\ Ready /\ Lt = "V"
    /\ LET y == FirstArg
           a == copysign_half_pi(y - current_point[2])
       IN  /\ Finish(AfterFirstArg, Append(V0, VTangent(a)),
                     <<current_point[1], y>>,
                     <<Call("line_to", <<current_point[1], y>>)>>, "line")
           /\ seg_from' = current_point
    /\ UNCHANGED <<ctrl, origin>>

\* the Tangent Pair lines 303 and 312 append for the angle a
LTangent(a) == TangentBy(PI - a, a, Lt)

\* lines 299-305: letter == 'l'
RelLineTo ==
    /\ pc = "loop" /\ Ready /\ Lt = "l"
    /\ LET p == point(Rest0, headIsLetter)
       IN  IF ~p.ok
           THEN Raise("PointError", Rest0, <<>>)
           ELSE /\ Compass(p.x, p.y)
                /\ Finish(p.rest,
                          Append(V0, LTangent(point_angle(0, 0, p.x, p.y))),
                          <<current_point[1] + p.x, current_point[2] + p.y>>,
                          <<Call("rel_line_to", <<p.x, p.y>>)>>, "line")
                /\ seg_from' = current_point
                /\ UNCHANGED <<ctrl, origin>>

\* lines 307-314: letter == 'L'
LineTo ==
    /\ pc = "loop" /\ Ready /\ Lt = "L"
    /\ LET p == point(Rest0, headIsLetter)
       IN  IF ~p.ok
           THEN Raise("PointError", Rest0, <<>>)
           ELSE /\ Compass(p.x - current_point[1], p.y - current_point[2])
                /\ Finish(p.rest,
                          Append(V0, LTangent(point_angle(current_point[1], current_point[2], p.x, p.y))),
                          <<p.x, p.y>>,
                          <<Call("line_to", <<p.x, p.y>>)>>, "line")
                /\ seg_from' = current_point
                /\ UNCHANGED <<ctrl, origin>>

(* ----------------------- path(): moveto, closepath --------------------- *)

\* lines 319 and 327: a Subpath Break precedes the moveto point
MoveBreak(v) ==
    IF last_letter # NoLetter /\ last_letter \notin {"z", "Z"}
    THEN Append(v, Break) ELSE v

\* lines 316-322: letter == 'm'
RelMoveTo ==
    /\ pc = "loop" /\ Ready /\ Lt = "m"
    /\ LET p == point(Rest0, headIsLetter)
       IN  IF ~p.ok
           THEN Raise("PointError", Rest0, <<>>)
           ELSE LET cp == <<current_point[1] + p.x, current_point[2] + p.y>>
                IN  /\ Finish(p.rest, MoveBreak(V0), cp,
                              <<Call("rel_move_to", <<p.x, p.y>>)>>, "move")
                    /\ origin' = cp
                    /\ UNCHANGED <<ctrl, seg_from>>

\* lines 324-330: letter == 'M'
MoveTo ==
    /\ pc = "loop" /\ Ready /\ Lt = "M"
    /\ LET p == point(Rest0, headIsLetter)
       IN  IF ~p.ok
           THEN Raise("PointError", Rest0, <<>>)
           ELSE /\ Finish(p.rest, MoveBreak(V0), <<p.x, p.y>>,
                          <<Call("move_to", <<p.x, p.y>>)>>, "move")
                /\ origin' = <<p.x, p.y>>
                /\ UNCHANGED <<ctrl, seg_from>>

\* line 445: the condition of the closepath branch
Closes == Lt \in {"z", "Z"} /\ Fpp # None

\* close_path that leaves the current point where it is
ClosePointStays == current_point

\* line 449: the current point after close_path
ClosePoint == Fpp

\* lines 445-449: letter in 'zZ' and first_path_point
ClosePath ==
    /\ pc = "loop" /\ Ready /\ Closes
    /\ Finish(Rest0, Append(V0, Break), ClosePoint,
              <<Call("close_path", <<>>)>>, "close")
    /\ UNCHANGED <<ctrl, seg_from, origin>>

\* lines 445-455: letter in 'zZ' and no first_path_point, no branch is taken
CloseSkipped ==
    /\ pc = "loop" /\ Ready /\ Lt \in {"z", "Z"} /\ ~Closes
    /\ Finish(Rest0, V0, current_point, <<>>, "close_skipped")
    /\ UNCHANGED <<ctrl, seg_from, origin>>

(* ----------------------- path(): cubic curves -------------------------- *)

\* three helpers.point() calls in a row (lines 253-255, 271-273)
point3(s, tr) ==
    LET p1 == point(s, tr)
        p2 == point(p1.rest, tr)
        p3 == point(p2.rest, tr)
    IN  [ok |-> p1.ok /\ p2.ok /\ p3.ok, p1 |-> p1, p2 |-> p2, p3 |-> p3, rest |-> p3.rest]

\* two helpers.point() calls in a row (lines 335-336, 359-360, ...)
point2(s, tr) ==
    LET p2 == point(s, tr)
        p3 == point(p2.rest, tr)
    IN  [ok |-> p2.ok /\ p3.ok, p2 |-> p2, p3 |-> p3, rest |-> p3.rest]

\* the Tangent Pair of a cubic with control points (a1, b1), (a2, b2) and
\* end point (a3, b3): lines 256, 274, 361, 381
CTangent(a1, b1, a2, b2, a3, b3) ==
    TangentBy(point_angle(a2, b2, a1, b1), point_angle(a2, b2, a3, b3), Lt)

CCompass(a1, b1, a2, b2, a3, b3) ==
    Compass(a1 - a2, b1 - b2) /\ Compass(a3 - a2, b3 - b2)

\* lines 250-267: letter == 'c'
RelCurveTo ==
    /\ pc = "loop" /\ Ready /\ Lt = "c"
    /\ LET q == point3(Rest0, headIsLetter)
           x == current_point[1]
           y == current_point[2]
       IN  IF ~q.ok
           THEN Raise("PointError", Rest0, <<>>)
           ELSE /\ CCompass(q.p1.x, q.p1.y, q.p2.x, q.p2.y, q.p3.x, q.p3.y)
                /\ Finish(q.rest,
                          Append(V0, CTangent(q.p1.x, q.p1.y, q.p2.x, q.p2.y, q.p3.x, q.p3.y)),
                          <<x + q.p3.x, y + q.p3.y>>,
                          <<Call("rel_curve_to", <<q.p1.x, q.p1.y, q.p2.x, q.p2.y, q.p3.x, q.p3.y>>)>>,
                          "curve")
                /\ x1' = q.p1.x + x /\ y1' = q.p1.y + y
                /\ x2' = q.p2.x + x /\ y2' = q.p2.y + y
                /\ x3' = q.p3.x + x /\ y3' = q.p3.y + y
                /\ seg_from' = current_point
                /\ UNCHANGED origin

\* lines 269-277: letter == 'C'
CurveTo ==
    /\ pc = "loop" /\ Ready /\ Lt = "C"
    /\ LET q == point3(Rest0, headIsLetter)
       IN  IF ~q.ok
           THEN Raise("PointError", Rest0, <<>>)
           ELSE /\ CCompass(q.p1.x, q.p1.y, q.p2.x, q.p2.y, q.p3.x, q.p3.y)
                /\ Finish(q.rest,
                          Append(V0, CTangent(q.p1.x, q.p1.y, q.p2.x, q.p2.y, q.p3.x, q.p3.y)),
                          <<q.p3.x, q.p3.y>>,
                          <<Call("curve_to", <<q.p1.x, q.p1.y, q.p2.x, q.p2.y, q.p3.x, q.p3.y>>)>>,
                          "curve")
                /\ x1' = q.p1.x /\ y1' = q.p1.y
                /\ x2' = q.p2.x /\ y2' = q.p2.y
                /\ x3' = q.p3.x /\ y3' = q.p3.y
                /\ seg_from' = current_point
                /\ UNCHANGED origin

\* lines 357-358: the first control point of 's', relative
RelReflect == 
    IF last_letter \in {"c", "s", "C", "S"} THEN <<x3 - x2, y3 - y2>> ELSE <<0, 0>>

\* lines 354-372: letter == 's'
RelSmooth ==
    /\ pc = "loop" /\ Ready /\ Lt = "s"
    /\ IF last_letter = NoLetter
       THEN Raise("TypeError", Rest0, <<>>)
       ELSE LET q == point2(Rest0, headIsLetter)
                x == current_point[1]
                y == current_point[2]
                c1 == RelReflect
            IN  IF ~q.ok
                THEN Raise("PointError", Rest0, <<>>)
                ELSE /\ CCompass(c1[1], c1[2], q.p2.x, q.p2.y, q.p3.x, q.p3.y)
                     /\ Finish(q.rest,
                               Append(V0, CTangent(c1[1], c1[2], q.p2.x, q.p2.y, q.p3.x, q.p3.y)),
                               <<x + q.p3.x, y + q.p3.y>>,
                               <<Call("rel_curve_to", <<c1[1], c1[2], q.p2.x, q.p2.y, q.p3.x, q.p3.y>>)>>,
                               "curve")
                     /\ x1' = c1[1] + x /\ y1' = c1[2] + y
                     /\ x2' = q.p2.x + x /\ y2' = q.p2.y + y
                     /\ x3' = q.p3.x + x /\ y3' = q.p3.y + y
                     /\ seg_from' = current_point
                     /\ UNCHANGED origin

\* lines 377-378: the first control point of 'S', absolute
Reflect ==
    IF last_letter \in {"c", "s", "C", "S"}
    THEN <<x3 + (x3 - x2), y3 + (y3 - y2)>> ELSE current_point

\* lines 374-384: letter == 'S'
Smooth ==
    /\ pc = "loop" /\ Ready /\ Lt = "S"
    /\ IF last_letter = NoLetter
       THEN Raise("TypeError", Rest0, <<>>)
       ELSE LET q == point2(Rest0, headIsLetter)
                c1 == Reflect
            IN  IF ~q.ok
                THEN Raise("PointError", Rest0, <<>>)
                ELSE /\ CCompass(c1[1], c1[2], q.p2.x, q.p2.y, q.p3.x, q.p3.y)
                     /\ Finish(q.rest,
                               Append(V0, CTangent(c1[1], c1[2], q.p2.x, q.p2.y, q.p3.x, q.p3.y)),
                               <<q.p3.x, q.p3.y>>,
                               <<Call("curve_to", <<c1[1], c1[2], q.p2.x, q.p2.y, q.p3.x, q.p3.y>>)>>,
                               "curve")
                     /\ x1' = c1[1] /\ y1' = c1[2]
                     /\ x2' = q.p2.x /\ y2' = q.p2.y
                     /\ x3' = q.p3.x /\ y3' = q.p3.y
                     /\ seg_from' = current_point
                     /\ UNCHANGED origin

(* ----------------------- path(): quadratic curves ---------------------- *)

\* helpers.quadratic_points(x1, y1, x2, y2, x3, y3), every value times 3
quadratic_points(a1, b1, a2, b2, a3, b3) ==
    <<2 * a2 + a1, 2 * b2 + b1, 2 * a2 + a3, 2 * b2 + b3, 3 * a3, 3 * b3>>

\* lines 332-341: letter == 'q'
RelQuad ==
    /\ pc = "loop" /\ Ready /\ Lt = "q"
    /\ LET q == point2(Rest0, headIsLetter)
       IN  IF ~q.ok
           THEN Raise("PointError", Rest0, <<>>)
           ELSE /\ Finish(q.rest, Append(V0, TangentBy(0, 0, Lt)),
                          <<current_point[1] + q.p3.x, current_point[2] + q.p3.y>>,
                          <<CallDen("rel_curve_to",
                                    quadratic_points(0, 0, q.p2.x, q.p2.y, q.p3.x, q.p3.y), 3)>>,
                          "curve")
                /\ x1' = 0 /\ y1' = 0
                /\ x2' = q.p2.x /\ y2' = q.p2.y
                /\ x3' = q.p3.x /\ y3' = q.p3.y
                /\ seg_from' = current_point
                /\ UNCHANGED origin

\* lines 343-352: letter == 'Q'
Quad ==
    /\ pc = "loop" /\ Ready /\ Lt = "Q"
    /\ LET q == point2(Rest0, headIsLetter)
           x == current_point[1]
           y == current_point[2]
       IN  IF ~q.ok
           THEN Raise("PointError", Rest0, <<>>)
           ELSE /\ Finish(q.rest, Append(V0, TangentBy(0, 0, Lt)),
                          <<q.p3.x, q.p3.y>>,
                          <<CallDen("curve_to",
                                    quadratic_points(x, y, q.p2.x, q.p2.y, q.p3.x, q.p3.y), 3)>>,
                          "curve")
                /\ x1' = x /\ y1' = y
                /\ x2' = q.p2.x /\ y2' = q.p2.y
                /\ x3' = q.p3.x /\ y3' = q.p3.y
                /\ seg_from' = current_point
                /\ UNCHANGED origin

\* lines 388-396: the control point of 't', relative to the current point
RelQuadReflect ==
    LET b == IF last_letter \notin {"Q", "q", "T", "t"} THEN <<0, 0, 0, 0>>
             ELSE IF last_letter \in {"Q", "T"} THEN <<x2 - x1, y2 - y1, x3 - x1, y3 - y1>>
             ELSE <<x2, y2, x3, y3>>
    IN  <<b[3] - b[1], b[4] - b[2]>>

\* lines 386-403: letter == 't'
RelSmoothQuad ==
    /\ pc = "loop" /\ Ready /\ Lt = "t"
    /\ IF last_letter = NoLetter
       THEN Raise("TypeError", Rest0, <<>>)
       ELSE LET p == point(Rest0, headIsLetter)
                c == RelQuadReflect
            IN  IF ~p.ok
                THEN Raise("PointError", Rest0, <<>>)
                ELSE /\ Finish(p.rest, Append(V0, TangentBy(0, 0, Lt)),
                               <<current_point[1] + p.x, current_point[2] + p.y>>,
                               <<CallDen("rel_curve_to",
                                         quadratic_points(0, 0, c[1], c[2], p.x, p.y), 3)>>,
                               "curve")
                     /\ x1' = 0 /\ y1' = 0
                     /\ x2' = c[1] /\ y2' = c[2]
                     /\ x3' = p.x /\ y3' = p.y
                     /\ seg_from' = current_point
                     /\ UNCHANGED origin

\* lines 407-416: the control point of 'T', absolute
QuadReflect ==
    LET ax == current_point[1]
        ay == current_point[2]
        b == IF last_letter \notin {"Q", "q", "T", "t"} THEN <<ax, ay, ax, ay>>
             ELSE IF last_letter \in {"q", "t"} THEN <<x2 + ax, y2 + ay, x3 + ax, y3 + ay>>
             ELSE <<x2, y2, x3, y3>>
    IN  <<ax + (b[3] - b[1]), ay + (b[4] - b[2])>>

\* lines 405-423: letter == 'T'
SmoothQuad ==
    /\ pc = "loop" /\ Ready /\ Lt = "T"
    /\ IF last_letter = NoLetter
       THEN Raise("TypeError", Rest0, <<>>)
       ELSE LET p == point(Rest0, headIsLetter)
                c == QuadReflect
                ax == current_point[1]
                ay == current_point[2]
            IN  IF ~p.ok
                THEN Raise("PointError", Rest0, <<>>)
                ELSE /\ Finish(p.rest, Append(V0, TangentBy(0, 0, Lt)),
                               <<p.x, p.y>>,
                               <<CallDen("curve_to",
                                         quadratic_points(ax, ay, c[1], c[2], p.x, p.y), 3)>>,
                               "curve")
                     /\ x1' = ax /\ y1' = ay
                     /\ x2' = c[1] /\ y2' = c[2]
                     /\ x3' = p.x /\ y3' = p.y
                     /\ seg_from' = current_point
                     /\ UNCHANGED origin

(* ----------------------- path(): elliptical arc ------------------------ *)

\* lines 166-177: the arguments of an arc, read token by token.  err names
\* the exception raised while reading ("" if none).
ArcArgs ==
    LET tr == headIsLetter
        r  == point(Rest0, tr)
        s1 == r.rest
        rotOK == IF tr THEN Len(s1) >= 1 ELSE Len(s1) >= 2
        rot == IF s1 = <<>> THEN Num(0) ELSE Head(s1)
        s2 == IF s1 = <<>> THEN <<>> ELSE Tail(s1)
        s3 == IF s2 = <<>> THEN <<>> ELSE Tail(s2)
        s4 == IF s3 = <<>> THEN <<>> ELSE Tail(s3)
        e  == point(s4, FALSE)
        digit(tok) == tok.k = "N" /\ tok.n \in 0..9
    IN  [err |-> IF ~r.ok THEN "PointError"
                 ELSE IF ~rotOK \/ rot.k # "N" THEN "ValueError"
                 ELSE IF s2 = <<>> \/ s3 = <<>> THEN "IndexError"
                 ELSE IF ~e.ok THEN "PointError"
                 ELSE IF ~digit(Head(s2)) \/ ~digit(Head(s3)) THEN "ValueError"
                 ELSE "",
         rx |-> r.x, ry |-> r.y, rotation |-> size(rot),
         large |-> IF s2 = <<>> THEN 0 ELSE size(Head(s2)),
         sweep |-> IF s3 = <<>> THEN 0 ELSE size(Head(s3)),
         x3 |-> e.x, y3 |-> e.y, rest |-> e.rest]

\* line 181: only 0 or 1 are flags
BadFlags(a) == a.large \notin {0, 1} \/ a.sweep \notin {0, 1}

\* lines 185-188: the end point relative to the current point
ArcEnd(a) ==
    IF Lt = "A" THEN <<a.x3 - current_point[1], a.y3 - current_point[2]>>
    ELSE <<a.x3, a.y3>>

\* line 191
Degenerate(a) == a.rx = 0 \/ a.ry = 0

\* lines 162-182: letter in 'aA', a flag is not 0 or 1: continue
ArcSkipped ==
    /\ pc = "loop" /\ Ready /\ Lt \in {"a", "A"}
    /\ LET a == ArcArgs
       IN  /\ a.err = "" /\ BadFlags(a)
           /\ pc' = "loop"
           /\ letter' = Lt
           /\ string' = a.rest
           /\ first_path_point' = Fpp
           /\ vertices' = V0
           /\ calls' = Append(calls, Call("set_tolerance", <<>>))
           /\ x1' = current_point[1] /\ y1' = current_point[2]
           /\ x3' = a.x3 /\ y3' = a.y3
           /\ event' = "arc_skipped"
           /\ vmark' = Len(vertices) /\ cmark' = Len(calls)
           /\ consumed' = Len(string) - Len(a.rest)
           /\ rewritten' = "no"
    /\ UNCHANGED <<exc, ctx_point, ctx_start, eof, ncmds, last_letter, current_point, x2, y2,
                   seg_from, origin, mvars, complete, expect>>

\* lines 192-199: the arc is rewritten as 'l x3 y3', followed by the arc's
\* letter when the next token is not a command letter
Rewritten(a) ==
    LET e == ArcEnd(a)
        next_letter == IF a.rest # <<>> /\ ~IsLetter(Head(a.rest))
                       THEN <<Let(Lt)>> ELSE <<>>
    IN  <<Let("l"), Num(e[1]), Num(e[2])>> \o next_letter \o a.rest

\* what the command 'l e' leaves when it is executed in the current state
\* in place of the arc (lines 146-160, 299-305, 451-455)
LineOutcome(e) ==
    [vertices |-> V0 \o <<TangentBy(PI - point_angle(0, 0, e[1], e[2]),
                                    point_angle(0, 0, e[1], e[2]), "l"),
                          Point(<<current_point[1] + e[1], current_point[2] + e[2]>>)>>,
     current_point |-> <<current_point[1] + e[1], current_point[2] + e[2]>>,
     first_path_point |-> Fpp,
     last_letter |-> "l",
     calls |-> Append(calls, Call("rel_line_to", e))]

NoOutcome ==
    [vertices |-> <<>>, current_point |-> <<0, 0>>, first_path_point |-> None,
     last_letter |-> NoLetter, calls |-> <<>>]

\* lines 162-200: letter in 'aA', rx or ry is 0: continue with a lineto
ArcAsLine ==
    /\ pc = "loop" /\ Ready /\ Lt \in {"a", "A"}
    /\ LET a == ArcArgs
       IN  /\ a.err = "" /\ ~BadFlags(a) /\ Degenerate(a)
           /\ pc' = "loop"
           /\ letter' = Lt
           /\ string' = Rewritten(a)
           /\ first_path_point' = Fpp
           /\ vertices' = V0
           /\ calls' = Append(calls, Call("set_tolerance", <<>>))
           /\ x1' = current_point[1] /\ y1' = current_point[2]
           /\ x3' = ArcEnd(a)[1] /\ y3' = ArcEnd(a)[2]
           /\ event' = "arc_line"
           /\ vmark' = Len(vertices) /\ cmark' = Len(calls)
           /\ consumed' = Len(string) - Len(Rewritten(a))
           /\ rewritten' = "pending"
           /\ expect' = LineOutcome(ArcEnd(a))
    /\ UNCHANGED <<exc, ctx_point, ctx_start, eof, ncmds, last_letter, current_point, x2, y2,
                   seg_from, origin, mvars, complete>>

\* lines 162-180: an exception while the arguments are read
ArcRaises ==
    /\ pc = "loop" /\ Ready /\ Lt \in {"a", "A"}
    /\ ArcArgs.err # ""
    /\ Raise(ArcArgs.err, Rest0, <<Call("set_tolerance", <<>>)>>)

\* the sign of yc, positive when large XOR sweep is false
YcSignPositive(large, sweep) == IF ~((large = 1) # (sweep = 1)) THEN 1 ELSE -1

\* lines 223-224: the sign of yc
YcSign(large, sweep) == IF ~((large = 1) # (sweep = 1)) THEN -1 ELSE 1

\* the arcs the model computes exactly: no rotation, rx = ry, and a centre
\* with rational coordinates.  d2 is the squared length of the chord.
ArcM(rx, d2) == CHOOSE m \in 0..(2 * rx) : m * m * d2 = 4 * rx * rx - d2
ArcExact(a, e) ==
    LET d2 == e[1] * e[1] + e[2] * e[2]
    IN  /\ a.rotation = 0 /\ a.rx = a.ry /\ a.rx > 0
        /\ \/ d2 = 0
           \/ 4 * a.rx * a.rx <= d2
           \/ \E m \in 0..(2 * a.rx) : m * m * d2 = 4 * a.rx * a.rx - d2

\* lines 202-232: twice the centre (xc, yc) of the circle, relative to the
\* start point.  With the chord e of length d, xc = d / 2 and
\* yc = +-sqrt(rx^2 - xc^2) are rotated back by the angle of e.
ArcCentre2(a, e) ==
    LET d2 == e[1] * e[1] + e[2] * e[2]
        sg == YcSign(a.large, a.sweep)
    IN  IF d2 = 0 THEN <<0, sg * 2 * a.rx>>
        ELSE IF 4 * a.rx * a.rx <= d2 THEN e
        ELSE <<e[1] - sg * ArcM(a.rx, d2) * e[2], e[2] + sg * ArcM(a.rx, d2) * e[1]>>

\* lines 235-236: angle1 and angle2
ArcAngles(a, e) ==
    LET c == ArcCentre2(a, e)
    IN  <<point_angle(c[1], c[2], 0, 0), point_angle(c[1], c[2], 2 * e[1], 2 * e[2])>>

\* lines 162-248: letter in 'aA', the arc is drawn
ArcTo ==
    /\ pc = "loop" /\ Ready /\ Lt \in {"a", "A"}
    /\ LET a == ArcArgs
           e == ArcEnd(a)
           c == ArcCentre2(a, e)
           g == ArcAngles(a, e)
       IN  /\ a.err = "" /\ ~BadFlags(a) /\ ~Degenerate(a)
           /\ ArcExact(a, e)
           /\ Compass(c[1], c[2]) /\ Compass(2 * e[1] - c[1], 2 * e[2] - c[2])
           /\ Finish(a.rest, Append(V0, TangentBy(-g[1], -g[2], Lt)),
                     <<current_point[1] + e[1], current_point[2] + e[2]>>,
                     <<Call("set_tolerance", <<>>),
                       Call("save", <<>>),
                       Call("translate", current_point),
                       Call("rotate", <<a.rotation>>),
                       Call("scale", <<1, 1>>),
                       CallDen(IF a.sweep = 1 THEN "arc" ELSE "arc_negative",
                               <<c[1], c[2], g[1], g[2]>>, 2),
                       Call("restore", <<>>)>>,
                     "arc")
           /\ x1' = current_point[1] /\ y1' = current_point[2]
           /\ x3' = e[1] /\ y3' = e[2]
           /\ seg_from' = current_point
    /\ UNCHANGED <<x2, y2, origin>>

(* ----------------------------- draw_markers ---------------------------- *)

\* The numbers of draw_markers: p * (pi / 16) + r / 2.  none is Python None.
Number(p, r) == [none |-> FALSE, p |-> p, r |-> r]
NoNumber == [none |-> TRUE, p |-> 0, r |-> 0]

\* a component of an entry of node.vertices as a number: the angles of a
\* Tangent Pair count pi / 8, the coordinates of a Point count 1
AsNumber(entry, v) == IF entry.kind = "T" THEN Number(2 * v, 0) ELSE Number(0, 2 * v)

\* pi - x
PiMinus(x) == Number(2 * PI - x.p, 0 - x.r)

\* x + pi
PlusPi(x) == Number(x.p + 2 * PI, x.r)

\* (a + pi - x) / 2
Bisect(a, x) == Number((a.p + 2 * PI - x.p) \div 2, (a.r - x.r) \div 2)

\* lines 20-27 and the attributes of the marker definition: the fragment of
\* each position ("" none, "m" a marker of surface.markers, "x" not one),
\* orient, the number of children, and whether a clip box applies
MarkerConfig(st, mi, en, orient, children, clip) ==
    [start |-> st, mid |-> mi, end |-> en, orient |-> orient,
     children |-> children, clip |-> clip]

NoMarkers == MarkerConfig("", "", "", "0", 0, FALSE)

MarkerConfigs ==
    {NoMarkers,
     MarkerConfig("m", "m", "m", "auto", 1, FALSE),
     MarkerConfig("m", "m", "m", "auto-start-reverse", 2, TRUE),
     MarkerConfig("m", "x", "", "0", 1, FALSE)}

\* line 17: nothing to do without vertices
MarkersSkip ==
    /\ pc = "returned" /\ vertices = <<>>
    /\ pc' = "done"
    /\ UNCHANGED <<exc, ctx_point, ctx_start, input, interp, ctrl, vertices, calls, ghost, mvars>>

\* lines 17-30
MarkersEnter ==
    /\ pc = "returned" /\ vertices # <<>>
    /\ pc' = "markers"
    /\ marker_cfg' \in MarkerConfigs
    /\ angle1' = NoNumber /\ angle2' = NoNumber
    /\ position' = "start"
    /\ UNCHANGED <<exc, ctx_point, ctx_start, input, interp, ctrl, vertices, calls, ghost,
                   angle, angle0, mpoint, angles, placed, prev_point, prev_angles>>

\* lines 34-35: the two entries an iteration pops
Popped ==
    LET rest == Tail(vertices)
    IN  [point |-> Head(vertices),
         angles |-> IF rest # <<>> THEN Head(rest) ELSE Break,
         rest |-> IF rest # <<>> THEN Tail(rest) ELSE <<>>]

\* the angle at a 'start' vertex taken from the second component
StartAngleOutgoing(t) == PiMinus(AsNumber(t, t.b))

\* line 39: the angle at a 'start' vertex
StartAngle(t) == PiMinus(AsNumber(t, t.a))

\* line 41: the angle at a 'mid' vertex
MidAngle(t) == Bisect(angle2, AsNumber(t, t.a))

\* lines 37-45: position and angle of the vertex
Placement ==
    LET t == Popped.angles
    IN  IF t.kind # "B"
        THEN [position |-> position,
              angle |-> IF position = "start" THEN StartAngle(t) ELSE MidAngle(t),
              angle1 |-> AsNumber(t, t.a), angle2 |-> AsNumber(t, t.b)]
        ELSE [position |-> "end", angle |-> angle1,
              angle1 |-> angle1, angle2 |-> angle2]

\* lines 90-96: the angle the marker is rotated by
Oriented(pl) ==
    LET a == IF marker_cfg.orient \notin {"auto", "auto-start-reverse"}
             THEN Number(0, 0)
             ELSE IF marker_cfg.orient = "auto-start-reverse" /\ pl.position = "start"
             THEN PlusPi(pl.angle)
             ELSE pl.angle
    IN  PlusPi(a)

\* lines 108-114: the clipping of one child
ClipCalls ==
    IF marker_cfg.clip
    THEN <<Call("save", <<>>), Call("rectangle", <<>>), Call("restore", <<>>),
           Call("clip", <<>>)>>
    ELSE <<>>

\* lines 101-117: the calls that render one child of the marker at point pt
ChildCalls(pt, a) ==
    <<Call("save", <<>>), Call("translate", <<pt.a, pt.b>>),
      Call("rotate", <<a.p, a.r>>), Call("scale", <<>>), Call("scale", <<>>),
      Call("translate", <<>>)>>
    \o ClipCalls
    \o <<Call("draw", <<>>), Call("restore", <<>>)>>

RECURSIVE Children(_, _, _)
\* lines 100-117: the loop over marker_node.children
Children(n, pt, a) ==
    IF n = 0 THEN <<>> ELSE ChildCalls(pt, a) \o Children(n - 1, pt, a)

\* the marker iteration leaves draw_markers with an exception
MarkerRaise(name, newcalls) ==
    /\ pc' = "raised"
    /\ exc' = name
    /\ calls' = calls \o newcalls
    /\ UNCHANGED angle

\* lines 32-121: one iteration of the loop over node.vertices
MarkerStep ==
    /\ pc = "markers" /\ vertices # <<>>
    /\ LET e == Popped
           pl == Placement
           marker == marker_cfg[pl.position]
       IN  /\ vertices' = e.rest
           /\ mpoint' = e.point
           /\ angles' = e.angles
           /\ angle1' = pl.angle1
           /\ angle2' = pl.angle2
           /\ angle0' = pl.angle
           /\ placed' = pl.position
           /\ prev_point' = mpoint
           /\ prev_angles' = angles
           /\ position' = IF e.angles.kind # "B" THEN "mid" ELSE "start"
           /\ IF marker = ""
              THEN /\ pc' = "markers" /\ angle' = pl.angle
                   /\ UNCHANGED <<exc, calls>>
              ELSE IF marker = "x"
              THEN MarkerRaise("AttributeError", <<>>)
              ELSE IF pl.angle.none /\ marker_cfg.orient \in {"auto", "auto-start-reverse"}
              THEN MarkerRaise("TypeError", <<Call("copy_path", <<>>), Call("new_path", <<>>)>>)
              ELSE IF marker_cfg.children > 0 /\ e.point.kind = "B"
              THEN MarkerRaise("TypeError",
                               <<Call("copy_path", <<>>), Call("new_path", <<>>),
                                 Call("save", <<>>)>>)
              ELSE /\ pc' = "markers"
                   /\ angle' = Oriented(pl)
                   /\ calls' = calls
                               \o <<Call("copy_path", <<>>), Call("new_path", <<>>)>>
                               \o Children(marker_cfg.children, e.point, Oriented(pl))
                               \o <<Call("append_path", <<>>)>>
                   /\ UNCHANGED exc
    /\ UNCHANGED <<ctx_point, ctx_start, input, interp, ctrl, ghost, marker_cfg>>

\* line 32: the loop ends when node.vertices is empty
MarkersReturn ==
    /\ pc = "markers" /\ vertices = <<>>
    /\ pc' = "done"
    /\ UNCHANGED <<exc, ctx_point, ctx_start, input, interp, ctrl, vertices, calls, ghost, mvars>>

(* ---------------------------- specification ---------------------------- *)

Init ==
    /\ pc = "init"
    /\ exc = "none"
    /\ ctx_point \in {None, <<1, 1>>}
    /\ ctx_start \in (IF ctx_point = None THEN {None} ELSE {ctx_point, <<0, 1>>})
    /\ string = <<>> /\ eof = FALSE /\ ncmds = 0
    /\ letter = NoLetter /\ last_letter = NoLetter
    /\ current_point = <<0, 0>> /\ first_path_point = None
    /\ x1 = 0 /\ y1 = 0 /\ x2 = 0 /\ y2 = 0 /\ x3 = 0 /\ y3 = 0
    /\ vertices = <<>> /\ calls = <<>>
    /\ event = "none" /\ vmark = 0 /\ cmark = 0
    /\ seg_from = None /\ origin = None
    /\ consumed = 0 /\ complete = TRUE /\ rewritten = "no" /\ expect = NoOutcome
    /\ position = "start" /\ angle1 = NoNumber /\ angle2 = NoNumber
    /\ angle = NoNumber /\ angle0 = NoNumber
    /\ mpoint = Break /\ angles = Break
    /\ marker_cfg = NoMarkers /\ placed = "none"
    /\ prev_point = Break /\ prev_angles = Break

Next ==
    \/ PathEnter \/ Feed \/ EndInput \/ PathReturn
    \/ RelHLine \/ HLine \/ RelVLine \/ VLine \/ RelLineTo \/ LineTo
    \/ RelMoveTo \/ MoveTo \/ ClosePath \/ CloseSkipped
    \/ RelCurveTo \/ CurveTo \/ RelSmooth \/ Smooth
    \/ RelQuad \/ Quad \/ RelSmoothQuad \/ SmoothQuad
    \/ ArcSkipped \/ ArcAsLine \/ ArcRaises \/ ArcTo

Spec == Init /\ [][Next]_vars

\* path() on the paths of straight lines, movetos and closepaths
NextL ==
    \/ PathEnter \/ FeedL \/ EndInput \/ PathReturn
    \/ RelHLine \/ HLine \/ RelVLine \/ VLine \/ RelLineTo \/ LineTo
    \/ RelMoveTo \/ MoveTo \/ ClosePath \/ CloseSkipped

SpecL == Init /\ [][NextL]_vars

\* path() followed by draw_markers(), on the paths of MarkerGroups
NextM ==
    \/ PathEnter \/ FeedM \/ PathReturn
    \/ RelHLine \/ HLine \/ RelVLine \/ VLine \/ RelLineTo \/ LineTo
    \/ MoveTo \/ ClosePath \/ CloseSkipped \/ CurveTo
    \/ MarkersSkip \/ MarkersEnter \/ MarkerStep \/ MarkersReturn

SpecM == Init /\ [][NextM]_vars

\* path() on the paths of arcs
NextA ==
    \/ PathEnter \/ FeedA \/ EndInput \/ PathReturn
    \/ ArcSkipped \/ ArcAsLine \/ ArcRaises \/ ArcTo \/ RelLineTo

SpecA == Init /\ [][NextA]_vars

(* ------------------------------- claims -------------------------------- *)

\* the calls that draw
DrawOps == {"move_to", "rel_move_to", "line_to", "rel_line_to", "curve_to",
            "rel_curve_to", "arc", "arc_negative", "close_path"}

IsDraw(c) == c.op \in DrawOps
Draws(cs) == SelectSeq(cs, IsDraw)

LineLetters == {"L", "l", "H", "h", "V", "v"}

\* a command letter has been read from the string (the first command appends
\* a Point to the vertex stream, lines 149 and 452)
LetterSeen == vertices # <<>>

\* C1: every iteration of the interpreter loop that does not end the loop
\* has consumed at least one token, whatever follows the command letter (so
\* path() terminates).
C1_EveryIterationConsumes ==
    (pc = "loop" /\ event # "none" /\ LetterSeen) => consumed > 0

\* C2: on a string of command letters each followed by a complete argument
\* group, no exception leaves path().
C2_NoException ==
    complete => pc # "raised"

\* C3: an arc with a flag other than 0 or 1 issues no draw call and leaves
\* the current point, the subpath-start point, the last command, the control
\* points carried to S/s/T/t and the vertex stream as they were.
C3_SkippedArcKeepsState ==
    [][ArcSkipped =>
         /\ vertices' = vertices
         /\ current_point' = current_point
         /\ first_path_point' = first_path_point
         /\ last_letter' = last_letter
         /\ ctrl' = ctrl
         /\ Draws(calls') = Draws(calls)]_vars

\* C4: an arc with rx = 0 or ry = 0 leaves the state that a relative lineto
\* to the same end point leaves: current point, subpath-start point, last
\* command, vertex stream, and one relative line draw call.
C4_DegenerateArcIsLine ==
    rewritten = "done" =>
        /\ vertices = expect.vertices
        /\ current_point = expect.current_point
        /\ first_path_point = expect.first_path_point
        /\ last_letter = expect.last_letter
        /\ Draws(calls) = Draws(expect.calls)

\* C5: a Z/z executed when no subpath-start point is recorded issues no draw
\* call, adds no entry to the vertex stream and leaves the current point.
C5_SkippedCloseIsNoOp ==
    [][CloseSkipped =>
         /\ calls' = calls
         /\ vertices' = vertices
         /\ current_point' = current_point]_vars

\* C6: a Z/z that follows an M/m is effective: it appends a Subpath Break,
\* issues close_path and sets the current point to the moveto point.
C6_CloseAfterMoveto ==
    [][(/\ pc = "loop" /\ string # <<>> /\ headIsLetter
        /\ last_letter \in {"m", "M"}
        /\ ClosePath \/ CloseSkipped)
       =>
       (/\ vertices' = Append(vertices, Break)
        /\ calls' = Append(calls, Call("close_path", <<>>))
        /\ current_point' = origin)]_vars

\* C7: after an effective Z/z the current point is the start point of the
\* subpath just closed (the point of its moveto), and the drawing command
\* that follows the Z/z starts from that point.
C7_CloseReturnsToStart ==
    /\ (event = "close" /\ origin # None) => current_point = origin
    /\ (/\ event \in {"line", "curve", "arc"} /\ origin # None
        /\ vmark >= 1 /\ vertices[vmark].kind = "B")
       => (seg_from = origin /\ vertices[vmark + 1] = Point(origin))

\* C7, witness: 'M p ... Z L q' where the subpath ended away from p
C7_Witness ==
    /\ event = "line" /\ last_letter = "L" /\ origin # None
    /\ vmark >= 2 /\ vertices[vmark].kind = "B"
    /\ vertices[vmark - 1].kind = "P" /\ vertices[vmark - 1] # Point(origin)
    /\ seg_from = origin /\ current_point # origin

\* the Tangent Pair the last command appended
LastTangent == vertices[Len(vertices) - 1]

\* C8: the Tangent Pair of a straight-line command is (pi - angle, angle),
\* angle being the direction from the old to the new current point, and its
\* components sum to pi.
C8_LineTangentPair ==
    event = "line" =>
        /\ LastTangent.a + LastTangent.b = PI
        /\ seg_from # current_point =>
              LET d == point_angle(seg_from[1], seg_from[2],
                                   current_point[1], current_point[2])
              IN  LastTangent.a = PI - d /\ LastTangent.b = d

\* the forward direction of the edge from Point p to Point q
Forward(p, q) == point_angle(p.a, p.b, q.a, q.b)

\* C9: at a 'mid' vertex between two straight-line segments the angle of
\* lines 37-45 is the average of the forward directions of the incoming and
\* the outgoing edge.
C9_MidAngleIsAverage ==
    (/\ placed = "mid"
     /\ prev_angles.by \in LineLetters /\ angles.by \in LineLetters
     /\ prev_point.kind = "P" /\ mpoint.kind = "P"
     /\ vertices # <<>> /\ Head(vertices).kind = "P"
     /\ <<prev_point.a, prev_point.b>> # <<mpoint.a, mpoint.b>>
     /\ <<mpoint.a, mpoint.b>> # <<Head(vertices).a, Head(vertices).b>>)
    => angle0 = Number(Forward(prev_point, mpoint) + Forward(mpoint, Head(vertices)), 0)

\* C10 as stated: at a 'start' vertex the angle of lines 37-45 is pi minus
\* the outgoing angle (the second component) of the Tangent Pair that follows.
C10_StartAngleFromOutgoing ==
    (placed = "start" /\ angles.kind = "T")
    => angle0 = PiMinus(AsNumber(angles, angles.b))

\* C10, amended: at a 'start' vertex the angle of lines 37-45 is pi minus
\* the incoming angle (the first component) of the Tangent Pair that follows.
C10_StartAngleFromIncoming ==
    (placed = "start" /\ angles.kind = "T")
    => angle0 = PiMinus(AsNumber(angles, angles.a))

\* C10, witness: a 'start' vertex whose Tangent Pair has two different angles
C10_Witness ==
    /\ placed = "start" /\ angles.kind = "T" /\ angles.a # angles.b
    /\ angle0 = PiMinus(AsNumber(angles, angles.a))

\* C11: draw_markers takes every anchor from a Point and every pair of
\* angles from a Tangent Pair (or from a Subpath Break or the end of the
\* stream), and classifies the anchor 'end' when a Subpath Break or the end
\* of the stream follows it, 'start' when it is the first of its subpath,
\* 'mid' otherwise.
C11_AnchorsArePoints ==
    placed # "none" =>
        /\ mpoint.kind = "P"
        /\ angles.kind # "P"
        /\ placed = (IF angles.kind = "B" THEN "end"
                     ELSE IF prev_angles.kind = "B" THEN "start" ELSE "mid")

\* C12: a marker attribute whose fragment is not a marker of the surface
\* makes draw_markers raise nothing (no AttributeError from the lookup of
\* line 50).
C12_UnresolvedMarkerSkipped ==
    ~(pc = "raised" /\ exc = "AttributeError")

IsSave(c) == c.op = "save"
IsRestore(c) == c.op = "restore"

\* depth of the surface's save stack, relative to the entry of path()
SaveDepth == Len(SelectSeq(calls, IsSave)) - Len(SelectSeq(calls, IsRestore))

\* C13: on every exit from path() and from draw_markers(), normal or by an
\* exception, every save() has been matched by a restore().
C13_SaveRestorePaired ==
    pc \in {"returned", "done", "raised"} => SaveDepth = 0

\* only tokens that precede the first command letter have been read: every
\* command letter appends to the vertex stream or raises (lines 149, 452)
OnlyLeadingTokens == pc = "loop" /\ event # "none" /\ vertices = <<>>

\* C14: a token that precedes the first command letter is skipped: the
\* iteration that meets it consumes it.
C14_LeadingTokensSkipped ==
    OnlyLeadingTokens => consumed > 0

\* a vertex stream in which every subpath begins with a Point, a Point is
\* followed by a Tangent Pair or a Subpath Break, a Tangent Pair by its
\* Point, and a Subpath Break by a Point
WellFormed(v) ==
    /\ v # <<>> => v[1].kind = "P"
    /\ \A i \in 1..(Len(v) - 1) :
          /\ v[i].kind = "P" => v[i + 1].kind \in {"T", "B"}
          /\ v[i].kind = "T" => v[i + 1].kind = "P"
          /\ v[i].kind = "B" => v[i + 1].kind = "P"
    /\ v # <<>> => v[Len(v)].kind # "T"

\* C15: after every command the vertex stream is well formed: Points and
\* Tangent Pairs alternate within a subpath and no two Points are adjacent.
C15_StreamWellFormed ==
    pc \in {"loop", "returned"} => WellFormed(vertices)

\* C16: the Point of an M/m that is not the first entry of the stream is
\* preceded by a Subpath Break.
C16_MovetoAfterBreak ==
    (event = "move" /\ Len(vertices) >= 2)
    => vertices[Len(vertices) - 1] = Break

\* the last draw call of a sequence of calls
LastDraw(cs) == Draws(cs)[Len(Draws(cs))]

\* the last draw call is the curve of a C, c, S or s
AfterCubic(cs) ==
    /\ Draws(cs) # <<>>
    /\ LastDraw(cs).op \in {"curve_to", "rel_curve_to"} /\ LastDraw(cs).den = 1

\* the last draw call is the curve of a Q, q, T or t
AfterQuadratic(cs) ==
    /\ Draws(cs) # <<>>
    /\ LastDraw(cs).op \in {"curve_to", "rel_curve_to"} /\ LastDraw(cs).den = 3

\* the control point at the arguments i, i + 1 of a cubic drawn from the
\* point from, in absolute coordinates
CubicCtrl(c, i, from) ==
    IF c.op = "curve_to" THEN <<c.args[i], c.args[i + 1]>>
    ELSE <<from[1] + c.args[i], from[2] + c.args[i + 1]>>

\* the control point of the quadratic that was drawn from the point from as
\* the cubic c (its first control point is (from + 2 * control) / 3), in
\* absolute coordinates
QuadCtrl(c, from) ==
    IF c.op = "curve_to"
    THEN <<(c.args[1] - from[1]) \div 2, (c.args[2] - from[2]) \div 2>>
    ELSE <<from[1] + c.args[1] \div 2, from[2] + c.args[2] \div 2>>

\* the reflection of the point p through the current point
Through(p) == <<2 * current_point[1] - p[1], 2 * current_point[2] - p[2]>>

\* C17: the first control point of the curve an S/s draws is the reflection
\* through the current point of the second control point of the cubic drawn
\* last, and the current point when the last draw call was not a cubic.
C17_SmoothReflects ==
    [][((Smooth \/ RelSmooth) /\ pc' = "loop")
       => CubicCtrl(LastDraw(calls'), 1, current_point)
            = (IF AfterCubic(calls)
               THEN Through(CubicCtrl(LastDraw(calls), 3, seg_from))
               ELSE current_point)]_vars

\* C18: the control point of the quadratic a T/t draws is the reflection
\* through the current point of the control point of the quadratic drawn
\* last, and the current point when the last draw call was not a quadratic.
C18_SmoothQuadReflects ==
    [][((SmoothQuad \/ RelSmoothQuad) /\ pc' = "loop")
       => QuadCtrl(LastDraw(calls'), current_point)
            = (IF AfterQuadratic(calls)
               THEN Through(QuadCtrl(LastDraw(calls), seg_from))
               ELSE current_point)]_vars

\* yc, up to a positive factor, of an arc with the chord e whose centre,
\* rotated back (line 232), is c: the component of c across the chord (c is
\* (0, yc) when the chord is null, line 209 giving the angle 0)
YcOf(e, c) == IF e = <<0, 0>> THEN c[2] ELSE e[1] * c[2] - e[2] * c[1]

\* the arc call of the arc drawn last (the call before restore, line 246)
ArcCall(cs) == cs[Len(cs) - 1]

\* C19 as stated: yc is taken positive when large XOR sweep is false and
\* negative when large XOR sweep is true.
C19_YcPositiveWhenFlagsAgree ==
    [][ArcTo =>
         LET a == ArcArgs
             yc == YcOf(ArcEnd(a), ArcCall(calls').args)
         IN  IF (a.large = 1) # (a.sweep = 1) THEN yc <= 0 ELSE yc >= 0]_vars

\* C19, amended: yc is taken negative when large XOR sweep is false and
\* positive when large XOR sweep is true.
C19_YcNegativeWhenFlagsAgree ==
    [][ArcTo =>
         LET a == ArcArgs
             yc == YcOf(ArcEnd(a), ArcCall(calls').args)
         IN  IF (a.large = 1) # (a.sweep = 1) THEN yc >= 0 ELSE yc <= 0]_vars

\* C19, witness: an arc has been drawn whose centre is off the chord, on the
\* negative side (large XOR sweep is false)
C19_Witness ==
    /\ event = "arc"
    /\ ArcCall(calls).op \in {"arc", "arc_negative"}
    /\ YcOf(<<current_point[1] - seg_from[1], current_point[2] - seg_from[2]>>,
            ArcCall(calls).args) < 0

RECURSIVE Surface(_, _)
\* the current point (cur) and the start point of the current subpath
\* (start) of the surface after the first n calls of cs, for the calls of
\* the moves, straight lines, curves and closepaths: a move starts a
\* subpath, a line or curve ends at its end point, close_path returns to
\* the start of the subpath
Surface(cs, n) ==
    IF n = 0 THEN [cur |-> ctx_point, start |-> ctx_start]
    ELSE LET s == Surface(cs, n - 1)
             c == cs[n]
             rel(i) == <<s.cur[1] + c.args[i] \div c.den,
                         s.cur[2] + c.args[i + 1] \div c.den>>
             abs(i) == <<c.args[i] \div c.den, c.args[i + 1] \div c.den>>
         IN  IF c.op = "move_to" THEN [cur |-> abs(1), start |-> abs(1)]
             ELSE IF c.op = "rel_move_to" THEN [cur |-> rel(1), start |-> rel(1)]
             ELSE IF c.op = "line_to" THEN [cur |-> abs(1), start |-> s.start]
             ELSE IF c.op = "rel_line_to" THEN [cur |-> rel(1), start |-> s.start]
             ELSE IF c.op = "curve_to" THEN [cur |-> abs(5), start |-> s.start]
             ELSE IF c.op = "rel_curve_to" THEN [cur |-> rel(5), start |-> s.start]
             ELSE IF c.op = "close_path" THEN [cur |-> s.start, start |-> s.start]
             ELSE s

\* C20: after every command the current point path() tracks is the current
\* point of the surface.
C20_TracksSurfacePoint ==
    pc \in {"loop", "returned"} => current_point = Surface(calls, Len(calls)).cur

====
